---- MODULE Spec2Model ----
(***************************************************************************)
(* KAIROS ML service (ml-service/app.py): the in-memory registry of loaded *)
(* models and scalers, the artifact files of the storage directory and the *)
(* handlers that move models between the two.                              *)
(*                                                                         *)
(* A model name and a file name are sequences of string tokens: the name   *)
(* "a_scaler" is <<"a", "_scaler">> and its model file "a_scaler.joblib"   *)
(* is <<"a", "_scaler", ".joblib">>.  Concatenation, endswith and replace  *)
(* act on the tokens as the Python string operations act on the text.      *)
(***************************************************************************)
EXTENDS Integers, Sequences, FiniteSets, TLC

\* ------------------------------------------------------------------ bounds
\* number of fitted (model, scaler) pairs created in one behaviour
MaxVer == 2
\* largest row count of a features matrix or target vector
MaxRows == 2
\* largest width of a features matrix
MaxWidth == 1

\* ------------------------------------------------------------------- names
DefaultName == <<"default_model">>
\* value of data.get('model_name') when the request has no model_name
NoName == <<>>
Names == {<<"a">>, <<"a", "_scaler">>, DefaultName}

ModelPath(model_name) == model_name \o <<".joblib">>
ScalerPath(model_name) == model_name \o <<"_scaler", ".joblib">>
MetadataPath(model_name) == model_name \o <<"_metadata", ".json">>

\* str.endswith
EndsWith(f, suffix) ==
    /\ Len(f) >= Len(suffix)
    /\ SubSeq(f, Len(f) - Len(suffix) + 1, Len(f)) = suffix

\* f.replace('.joblib', ''): every occurrence is removed
StripJoblib(f) == SelectSeq(f, LAMBDA t : t # ".joblib")

\* ----------------------------------------------------------------- objects
\* Python None
None == [kind |-> "none", owner |-> <<>>, ver |-> 0, d |-> 0, n |-> 0]
\* the bytes a write leaves behind when it fails part way
Corrupt == [kind |-> "corrupt", owner |-> <<>>, ver |-> 0, d |-> 0, n |-> 0]
\* RandomForestRegressor fitted for model_name on features of width d
Model(model_name, v, d) ==
    [kind |-> "model", owner |-> model_name, ver |-> v, d |-> d, n |-> 0]
\* StandardScaler fitted for model_name on features of width d
Scaler(model_name, v, d) ==
    [kind |-> "scaler", owner |-> model_name, ver |-> v, d |-> d, n |-> 0]
\* the metadata dict of a training run on an n x d matrix, with saved_at set
Metadata(model_name, v, d, n) ==
    [kind |-> "meta", owner |-> model_name, ver |-> v, d |-> d, n |-> n]

\* bool(obj): None is falsy, a fitted estimator is truthy
Truthy(obj) == obj.kind # "none"

\* ------------------------------------------------------------------- state
VARIABLES
    disk,           \* files of MODEL_STORAGE_PATH: file name -> content
    loaded_models,  \* dict model_name -> model
    scalers,        \* dict model_name -> scaler or None
    clock,          \* number of fitted pairs created so far
    last,           \* the request handled last and its response
    threads,        \* thread -> the request it serves, its position and locals
    written         \* the (model, scaler) pairs requests set out to register

vars == <<disk, loaded_models, scalers, clock, last, threads, written>>

EmptyDict == [k \in {} |-> None]

\* d[k] = v
Put(dict, k, v) == [x \in DOMAIN dict \cup {k} |-> IF x = k THEN v ELSE dict[x]]
\* del d[k]
Del(dict, k) == [x \in DOMAIN dict \ {k} |-> dict[x]]

NoInput == [ndim |-> 0, rows |-> 0, width |-> 0]

\* what a handler answers, with the request it answered: resident tells
\* whether name was in loaded_models when the request arrived, loads counts
\* the joblib.load(model_path) calls made, fault names the I/O fault met,
\* repeats tells whether the request before was the same request,
\* prior_loads is the loads of that same request before, missing names the
\* field a train request lacks, tlen is the length of its target, and
\* follows_train tells whether the request before was a train of the same
\* name that answered 200
Response(op, name, status, ok) ==
    [op |-> op, name |-> name, status |-> status, ok |-> ok, x |-> NoInput,
     resident |-> FALSE, loads |-> 0, predictions |-> <<>>, models |-> <<>>,
     total |-> 0, model |-> None, scaler |-> None, metadata |-> None,
     fault |-> "none", repeats |-> FALSE, prior_loads |-> 0,
     missing |-> "none", tlen |-> 0, follows_train |-> FALSE]

\* the request (op, name, x) is the one answered in prev
Repeats(prev, op, name, x) == prev.op = op /\ prev.name = name /\ prev.x = x

\* ------------------------------------------------------------- load_model
ReadFaults == {"none", "model", "scaler"}

\* joblib.load(path) raises: the read fails or the file is damaged
ReadFails(dk, path, faulty) == faulty \/ dk[path].kind = "corrupt"

\* load_model returns True
LoadSucceeds(dk, model_name, fault) ==
    /\ ModelPath(model_name) \in DOMAIN dk
    /\ ~ReadFails(dk, ModelPath(model_name), fault = "model")
    /\ ScalerPath(model_name) \in DOMAIN dk =>
           ~ReadFails(dk, ScalerPath(model_name), fault = "scaler")

\* the scaler load_model pairs with the model
LoadedScaler(dk, model_name) ==
    IF ScalerPath(model_name) \in DOMAIN dk
    THEN dk[ScalerPath(model_name)]
    ELSE None

\* load_model with the miss remembered: a failed load leaves a None entry
load_model_caches_miss(dk, lm, sc, model_name, fault) ==
    IF LoadSucceeds(dk, model_name, fault)
    THEN [ok |-> TRUE,
          loaded_models |-> Put(lm, model_name, dk[ModelPath(model_name)]),
          scalers |-> Put(sc, model_name, LoadedScaler(dk, model_name))]
    ELSE [ok |-> FALSE, loaded_models |-> Put(lm, model_name, None),
          scalers |-> Put(sc, model_name, None)]

\* load_model with loaded_models[model_name] assigned before the scaler is read
load_model_assigns_early(dk, lm, sc, model_name, fault) ==
    IF LoadSucceeds(dk, model_name, fault)
    THEN [ok |-> TRUE,
          loaded_models |-> Put(lm, model_name, dk[ModelPath(model_name)]),
          scalers |-> Put(sc, model_name, LoadedScaler(dk, model_name))]
    ELSE IF /\ ModelPath(model_name) \in DOMAIN dk
            /\ ~ReadFails(dk, ModelPath(model_name), fault = "model")
    THEN [ok |-> FALSE,
          loaded_models |-> Put(lm, model_name, dk[ModelPath(model_name)]),
          scalers |-> sc]
    ELSE [ok |-> FALSE, loaded_models |-> lm, scalers |-> sc]

\* load_model(model_name): the return value and the two dicts after the call
load_model(dk, lm, sc, model_name, fault) ==
    IF LoadSucceeds(dk, model_name, fault)
    THEN [ok |-> TRUE,
          loaded_models |-> Put(lm, model_name, dk[ModelPath(model_name)]),
          scalers |-> Put(sc, model_name, LoadedScaler(dk, model_name))]
    ELSE [ok |-> FALSE, loaded_models |-> lm, scalers |-> sc]

\* the read faults load_model(model_name) can meet: a file it does not open
\* cannot fail
PossibleReadFaults(dk, model_name) ==
    {"none"}
    \cup (IF ModelPath(model_name) \in DOMAIN dk THEN {"model"} ELSE {})
    \cup (IF ModelPath(model_name) \in DOMAIN dk /\ ScalerPath(model_name) \in DOMAIN dk
          THEN {"scaler"} ELSE {})

\* number of joblib.load(model_path) calls load_model makes
DiskLoads(dk, model_name) == IF ModelPath(model_name) \in DOMAIN dk THEN 1 ELSE 0

\* ------------------------------------------------------------- save_model
WriteFaults == {"none", "mkdir", "model", "scaler", "meta"}
\* what a failed write leaves at its path
Partials == {"untouched", "truncated"}

\* a failed write that removes the file it was writing
FailedWriteUnlinks(dk, path, partial) == Del(dk, path)

\* a write to path that fails
FailedWrite(dk, path, partial) ==
    IF partial = "truncated" THEN Put(dk, path, Corrupt) ELSE dk

\* save_model(model, scaler, model_name, metadata): return value and disk
save_model(dk, model, scaler, model_name, metadata, fault, partial) ==
    LET d1 == Put(dk, ModelPath(model_name), model)
        d2 == IF Truthy(scaler) THEN Put(d1, ScalerPath(model_name), scaler) ELSE d1
        d3 == IF Truthy(metadata) THEN Put(d2, MetadataPath(model_name), metadata) ELSE d2
    IN  IF fault = "mkdir" THEN [ok |-> FALSE, disk |-> dk]
        ELSE IF fault = "model"
        THEN [ok |-> FALSE, disk |-> FailedWrite(dk, ModelPath(model_name), partial)]
        ELSE IF fault = "scaler" /\ Truthy(scaler)
        THEN [ok |-> FALSE, disk |-> FailedWrite(d1, ScalerPath(model_name), partial)]
        ELSE IF fault = "meta" /\ Truthy(metadata)
        THEN [ok |-> FALSE, disk |-> FailedWrite(d2, MetadataPath(model_name), partial)]
        ELSE [ok |-> TRUE, disk |-> d3]

\* -------------------------------------------------------------------- init
\* app.run(debug=False) serves each request on a thread of its own
Threads == {1, 2}

\* a thread that serves no request
Idle ==
    [op |-> "idle", pc |-> "idle", name |-> NoName, model |-> None,
     scaler |-> None, metadata |-> None, status |-> 0, err |-> "none"]

Init ==
    /\ disk = EmptyDict
    /\ loaded_models = EmptyDict
    /\ scalers = EmptyDict
    /\ clock = 0
    /\ last = Response("init", NoName, 0, TRUE)
    /\ threads = [t \in Threads |-> Idle]
    /\ written = {}

\* unload that forgets the scalers dict
unload_model_keeps_scaler(model_name) ==
    /\ loaded_models' = Del(loaded_models, model_name)
    /\ scalers' = scalers
    /\ last' = [Response("unload", model_name, 200, TRUE)
                   EXCEPT !.resident = model_name \in DOMAIN loaded_models,
                          !.repeats = Repeats(last, "unload", model_name, NoInput)]
    /\ UNCHANGED <<disk, clock, threads, written>>

\* ---------------------------------------------------------------- /unload
unload_model(model_name) ==
    /\ loaded_models' = Del(loaded_models, model_name)
    /\ scalers' = Del(scalers, model_name)
    /\ last' = [Response("unload", model_name, 200, TRUE)
                   EXCEPT !.resident = model_name \in DOMAIN loaded_models,
                          !.repeats = Repeats(last, "unload", model_name, NoInput)]
    /\ UNCHANGED <<disk, clock, threads, written>>

\* ------------------------------------------------------------------ /load
load_model_endpoint(model_name, fault) ==
    LET r == load_model(disk, loaded_models, scalers, model_name, fault)
    IN  /\ loaded_models' = r.loaded_models
        /\ scalers' = r.scalers
        /\ last' = [Response("load", model_name, IF r.ok THEN 200 ELSE 404, r.ok)
                       EXCEPT !.resident = model_name \in DOMAIN loaded_models,
                              !.loads = DiskLoads(disk, model_name),
                              !.fault = fault]
        /\ UNCHANGED <<disk, clock, threads, written>>

\* ---------------------------------------------------------------- listing
\* the orders in which a listing can yield the members of S
Orderings(S) ==
    {o \in [1..Cardinality(S) -> S] : \A i, j \in 1..Cardinality(S) : i # j => o[i] # o[j]}

\* f.endswith('.joblib') and not f.endswith('_scaler.joblib')
IsModelFile(f) == EndsWith(f, <<".joblib">>) /\ ~EndsWith(f, <<"_scaler", ".joblib">>)

\* the files of os.listdir(MODEL_STORAGE_PATH) the comprehension keeps
ModelFiles(dk) == {f \in DOMAIN dk : IsModelFile(f)}

\* the metadata list_models reports for model_name
ListedMetadata(dk, model_name) ==
    IF MetadataPath(model_name) \in DOMAIN dk THEN dk[MetadataPath(model_name)] ELSE None

\* json.load(metadata_path) raises
MetadataUnreadable(dk, model_name) ==
    /\ MetadataPath(model_name) \in DOMAIN dk
    /\ dk[MetadataPath(model_name)].kind = "corrupt"

\* the model_info list built from model_files, in their order
ModelInfo(dk, lm, model_files) ==
    [i \in 1..Len(model_files) |->
        [name |-> StripJoblib(model_files[i]),
         loaded |-> StripJoblib(model_files[i]) \in DOMAIN lm,
         metadata |-> ListedMetadata(dk, StripJoblib(model_files[i]))]]

\* ---------------------------------------------------------------- /models
list_models(model_files, fault) ==
    /\ model_files \in Orderings(ModelFiles(disk))
    /\ LET raises == \/ fault
                     \/ \E i \in 1..Len(model_files) :
                            MetadataUnreadable(disk, StripJoblib(model_files[i]))
       IN  last' = IF raises
                   THEN [Response("list", NoName, 500, FALSE)
                            EXCEPT !.fault = IF fault THEN "listdir" ELSE "none"]
                   ELSE [Response("list", NoName, 200, TRUE)
                            EXCEPT !.models = ModelInfo(disk, loaded_models, model_files),
                                   !.total = Len(model_files)]
    /\ UNCHANGED <<disk, loaded_models, scalers, clock, threads, written>>

\* ---------------------------------------------------------------- /health
health_check(keys) ==
    /\ keys \in Orderings(DOMAIN loaded_models)
    /\ last' = [Response("health", NoName, 200, TRUE)
                   EXCEPT !.models = [i \in 1..Len(keys) |->
                              [name |-> keys[i], loaded |-> TRUE, metadata |-> None]],
                          !.total = Len(keys)]
    /\ UNCHANGED <<disk, loaded_models, scalers, clock, threads, written>>

\* --------------------------------------------------------------- /predict
\* the features array of a request: a vector (ndim 1) of length width, or a
\* matrix (ndim 2) of rows x width
Inputs ==
    {[ndim |-> 1, rows |-> 1, width |-> w] : w \in 1..MaxWidth}
    \cup {[ndim |-> 2, rows |-> r, width |-> w] : r \in 1..MaxRows, w \in 1..MaxWidth}

\* scaler.transform(...) raises: the object has no transform, or the width differs
ScalerRaises(scaler, x) ==
    Truthy(scaler) /\ (scaler.kind # "scaler" \/ x.width # scaler.d)

\* features_scaled.ndim: the reshape happens only on the scaler branch
ScaledNdim(scaler, x) == IF Truthy(scaler) THEN 2 ELSE x.ndim

\* model.predict(features_scaled) raises
ModelRaises(model, scaler, x) ==
    \/ model.kind # "model"
    \/ ScaledNdim(scaler, x) # 2
    \/ x.width # model.d

\* a response that carries the first prediction only
PredictionsFirstOnly(model, scaler, x) ==
    [i \in 1..1 |-> [model |-> model.ver, scaler |-> scaler.ver, row |-> i]]

\* predictions.tolist(): one value per input row, in row order
Predictions(model, scaler, x) ==
    [i \in 1..x.rows |-> [model |-> model.ver, scaler |-> scaler.ver, row |-> i]]

\* a predict that loads from disk on every call
NeedsLoadAlways(lm, model_name) == TRUE

\* the handler reads the disk only for a name that is not resident
NeedsLoad(lm, model_name) == model_name \notin DOMAIN lm

predict(has_fields, model_name, x, fault) ==
    LET resident == model_name \in DOMAIN loaded_models
        r == IF NeedsLoad(loaded_models, model_name)
             THEN load_model(disk, loaded_models, scalers, model_name, fault)
             ELSE [ok |-> TRUE, loaded_models |-> loaded_models, scalers |-> scalers]
        loads == IF NeedsLoad(loaded_models, model_name)
                 THEN DiskLoads(disk, model_name) ELSE 0
        model == r.loaded_models[model_name]
        scaler == r.scalers[model_name]
        request == [Response("predict", model_name, 0, FALSE)
                       EXCEPT !.x = x, !.resident = resident, !.loads = loads,
                              !.fault = fault,
                              !.repeats = Repeats(last, "predict", model_name, x),
                              !.prior_loads =
                                  IF Repeats(last, "predict", model_name, x)
                                  THEN last.loads ELSE 0,
                              !.follows_train = /\ last.op = "train"
                                                /\ last.status = 200
                                                /\ last.name = model_name]
    IN  /\ UNCHANGED <<disk, clock, threads, written>>
        /\ IF ~has_fields
           THEN /\ last' = Response("predict", NoName, 400, FALSE)
                /\ UNCHANGED <<loaded_models, scalers>>
           ELSE /\ loaded_models' = r.loaded_models
                /\ scalers' = r.scalers
                /\ last' =
                     IF ~r.ok
                     THEN [request EXCEPT !.status = 404]
                     ELSE IF ScalerRaises(scaler, x) \/ ModelRaises(model, scaler, x)
                     THEN [request EXCEPT !.status = 500, !.model = model,
                                          !.scaler = scaler]
                     ELSE [request EXCEPT !.status = 200, !.ok = TRUE,
                                          !.model = model, !.scaler = scaler,
                                          !.predictions = Predictions(model, scaler, x)]

\* ----------------------------------------------------------------- /train
Missing == {"none", "body", "features", "target"}

\* a check of the fields that forgets the target
FieldsMissingButTarget(missing) == missing \in {"body", "features"}

\* not data or 'features' not in data or 'target' not in data
FieldsMissing(missing) == missing # "none"

\* train_test_split raises: an empty train partition, or lengths that differ
SplitRaises(n, tlen) == n < 2 \/ tlen # n

\* a train that registers the fitted pair whatever save_model returned
RegistersAlways(saved) == TRUE

\* the handler registers the fitted pair only when save_model returned True
Registers(saved) == saved

train_model(missing, name_arg, n, d, tlen, fault, partial) ==
    LET model_name == IF name_arg = NoName THEN DefaultName ELSE name_arg
        v == clock + 1
        model == Model(model_name, v, d)
        scaler == Scaler(model_name, v, d)
        metadata == Metadata(model_name, v, d, n)
        r == save_model(disk, model, scaler, model_name, metadata, fault, partial)
        features == [ndim |-> 2, rows |-> n, width |-> d]
    IN  IF FieldsMissing(missing)
        THEN /\ last' = [Response("train", NoName, 400, FALSE)
                                EXCEPT !.missing = missing]
             /\ UNCHANGED <<disk, loaded_models, scalers, clock, threads, written>>
        ELSE IF SplitRaises(n, tlen)
        THEN /\ last' = [Response("train", model_name, 500, FALSE)
                                EXCEPT !.resident = model_name \in DOMAIN loaded_models,
                                       !.x = features, !.tlen = tlen,
                                       !.missing = missing]
             /\ UNCHANGED <<disk, loaded_models, scalers, clock, threads, written>>
        ELSE /\ clock < MaxVer
             /\ clock' = v
             /\ disk' = r.disk
             /\ loaded_models' = IF Registers(r.ok) THEN Put(loaded_models, model_name, model)
                                 ELSE loaded_models
             /\ scalers' = IF Registers(r.ok) THEN Put(scalers, model_name, scaler)
                           ELSE scalers
             /\ last' = [Response("train", model_name, IF r.ok THEN 200 ELSE 500, r.ok)
                            EXCEPT !.resident = model_name \in DOMAIN loaded_models,
                                   !.model = model, !.scaler = scaler,
                                   !.metadata = IF r.ok THEN metadata ELSE None,
                                   !.fault = fault, !.x = features, !.tlen = tlen]
             /\ UNCHANGED <<threads, written>>

\* --------------------------------------------------------------- __main__
RECURSIVE Sweep(_, _, _, _, _)
\* the loop over model_files: load_model of each derived name, in order
Sweep(dk, lm, sc, model_files, faults) ==
    IF model_files = <<>> THEN [loaded_models |-> lm, scalers |-> sc]
    ELSE LET model_name == StripJoblib(Head(model_files))
             r == load_model(dk, lm, sc, model_name, faults[Head(model_files)])
         IN  Sweep(dk, r.loaded_models, r.scalers, Tail(model_files), faults)

\* the process starts again on the same storage directory
startup(model_files, faults, listdir_fails) ==
    /\ model_files \in Orderings(ModelFiles(disk))
    /\ faults \in [ModelFiles(disk) -> ReadFaults]
    /\ LET r == IF listdir_fails
                THEN [loaded_models |-> EmptyDict, scalers |-> EmptyDict]
                ELSE Sweep(disk, EmptyDict, EmptyDict, model_files, faults)
       IN  /\ loaded_models' = r.loaded_models
           /\ scalers' = r.scalers
    /\ last' = [Response("startup", NoName, 0, TRUE)
                   EXCEPT !.loads = IF listdir_fails THEN 0 ELSE Len(model_files),
                          !.fault = IF listdir_fails THEN "listdir"
                                    ELSE IF \E f \in ModelFiles(disk) : faults[f] # "none"
                                    THEN "read" ELSE "none"]
    /\ UNCHANGED <<disk, clock, threads, written>>

\* -------------------------------------------------------------------- next
\* the write faults, each with what the failed write can leave behind
FaultCases ==
    {<<f, p>> \in WriteFaults \X Partials : f \in {"none", "mkdir"} => p = "untouched"}

Next ==
    \/ \E missing \in Missing \ {"none"} :
           train_model(missing, NoName, 1, 1, 1, "none", "untouched")
    \/ \E name_arg \in Names \cup {NoName}, n \in 1..MaxRows, tlen \in 1..MaxRows :
           /\ SplitRaises(n, tlen)
           /\ train_model("none", name_arg, n, 1, tlen, "none", "untouched")
    \/ \E name_arg \in Names \cup {NoName}, n \in 2..MaxRows, d \in 1..MaxWidth,
          fc \in FaultCases :
           train_model("none", name_arg, n, d, n, fc[1], fc[2])
    \/ \E model_name \in Names, x \in Inputs :
           \E fault \in (IF model_name \in DOMAIN loaded_models THEN {"none"}
                         ELSE PossibleReadFaults(disk, model_name)) :
               predict(TRUE, model_name, x, fault)
    \/ predict(FALSE, NoName, NoInput, "none")
    \/ \E model_name \in Names :
           \E fault \in PossibleReadFaults(disk, model_name) :
               load_model_endpoint(model_name, fault)
    \/ \E model_name \in Names : unload_model(model_name)
    \/ \E model_files \in Orderings(ModelFiles(disk)), fault \in BOOLEAN :
           list_models(model_files, fault)
    \/ \E keys \in Orderings(DOMAIN loaded_models) : health_check(keys)
    \/ \E model_files \in Orderings(ModelFiles(disk)),
          faults \in [ModelFiles(disk) -> ReadFaults], listdir_fails \in BOOLEAN :
           /\ \A f \in ModelFiles(disk) :
                  faults[f] \in PossibleReadFaults(disk, StripJoblib(f))
           /\ listdir_fails => \A f \in ModelFiles(disk) : faults[f] = "none"
           /\ startup(model_files, faults, listdir_fails)

Spec == Init /\ [][Next]_vars

\* ------------------------------------------------- the store, called alone
\* save_model(model, scaler, model_name, metadata) called with a fresh model, a
\* fresh scaler or None, and a metadata dict or None
save_model_call(model_name, with_scaler, with_metadata, d, fault, partial) ==
    LET v == clock + 1
        model == Model(model_name, v, d)
        scaler == IF with_scaler THEN Scaler(model_name, v, d) ELSE None
        metadata == IF with_metadata THEN Metadata(model_name, v, d, 2) ELSE None
        r == save_model(disk, model, scaler, model_name, metadata, fault, partial)
    IN  /\ clock < MaxVer
        /\ clock' = v
        /\ disk' = r.disk
        /\ last' = [Response("save_model", model_name, 0, r.ok)
                       EXCEPT !.model = model, !.scaler = scaler,
                              !.metadata = metadata, !.fault = fault]
        /\ UNCHANGED <<loaded_models, scalers, threads, written>>

\* load_model(model_name) called directly
load_model_call(model_name, fault) ==
    LET r == load_model(disk, loaded_models, scalers, model_name, fault)
    IN  /\ loaded_models' = r.loaded_models
        /\ scalers' = r.scalers
        /\ last' = [Response("load_model", model_name, 0, r.ok)
                       EXCEPT !.resident = model_name \in DOMAIN loaded_models,
                              !.loads = DiskLoads(disk, model_name),
                              !.fault = fault]
        /\ UNCHANGED <<disk, clock, threads, written>>

\* the names the store is called with: no name is another one plus '_scaler'
StoreNames == {<<"a">>, DefaultName}

NextStore ==
    \/ \E model_name \in StoreNames, with_scaler \in BOOLEAN, with_metadata \in BOOLEAN,
          d \in 1..MaxWidth, fc \in FaultCases :
           save_model_call(model_name, with_scaler, with_metadata, d, fc[1], fc[2])
    \/ \E model_name \in StoreNames :
           \E fault \in PossibleReadFaults(disk, model_name) :
               load_model_call(model_name, fault)

SpecStore == Init /\ [][NextStore]_vars

\* ------------------------------------------- the requests that all succeed
\* the handlers with every request answered 200 and no I/O fault
NextOk ==
    \/ \E name_arg \in Names \cup {NoName}, n \in 2..MaxRows, d \in 1..MaxWidth :
           train_model("none", name_arg, n, d, n, "none", "untouched") /\ last'.ok
    \/ \E model_name \in Names, x \in Inputs :
           predict(TRUE, model_name, x, "none") /\ last'.ok
    \/ \E model_name \in Names : load_model_endpoint(model_name, "none") /\ last'.ok
    \/ \E model_name \in Names : unload_model(model_name)
    \/ \E model_files \in Orderings(ModelFiles(disk)) :
           list_models(model_files, FALSE) /\ last'.ok
    \/ \E keys \in Orderings(DOMAIN loaded_models) : health_check(keys)
    \/ \E model_files \in Orderings(ModelFiles(disk)) :
           startup(model_files, [f \in ModelFiles(disk) |-> "none"], FALSE)

SpecOk == Init /\ [][NextOk]_vars

\* ------------------------------------------------- requests that interleave
\* Each request runs on its own thread, statement by statement, on the shared
\* dicts and files; one step is one statement that reads or writes them. The
\* reads and writes of files meet no fault here.
ConcNames == {<<"a">>}

\* the features of the predict requests: one row of the fitted width
ConcInput == [ndim |-> 2, rows |-> 1, width |-> 1]

\* thread t stands before statement pc of its request
At(t, pc) == threads[t].pc = pc

\* thread t moves on to statement pc
Goto(t, pc) == threads' = [threads EXCEPT ![t].pc = pc]

\* the request of thread t returns
Finish(t, status, err) ==
    threads' = [threads EXCEPT ![t].pc = "done", ![t].status = status, ![t].err = err]

\* a free thread takes a predict, load or unload request
begin(t, op, model_name) ==
    /\ threads[t].pc \in {"idle", "done"}
    /\ threads' = [threads EXCEPT ![t] =
           [Idle EXCEPT !.op = op, !.name = model_name,
                        !.pc = CASE op = "predict" -> "check"
                                 [] op = "load" -> "read_model"
                                 [] op = "unload" -> "check_model"]]
    /\ UNCHANGED <<disk, loaded_models, scalers, clock, last, written>>

\* a free thread takes a train request and fits the pair
train_fit(t, model_name) ==
    /\ threads[t].pc \in {"idle", "done"}
    /\ clock < MaxVer
    /\ clock' = clock + 1
    /\ threads' = [threads EXCEPT ![t] =
           [Idle EXCEPT !.op = "train", !.name = model_name, !.pc = "dump_model",
                        !.model = Model(model_name, clock + 1, 1),
                        !.scaler = Scaler(model_name, clock + 1, 1),
                        !.metadata = Metadata(model_name, clock + 1, 1, 2)]]
    /\ UNCHANGED <<disk, loaded_models, scalers, last, written>>

\* joblib.dump(model, model_path)
save_dump_model(t) ==
    /\ At(t, "dump_model")
    /\ disk' = Put(disk, ModelPath(threads[t].name), threads[t].model)
    /\ Goto(t, "dump_scaler")
    /\ UNCHANGED <<loaded_models, scalers, clock, last, written>>

\* joblib.dump(scaler, scaler_path)
save_dump_scaler(t) ==
    /\ At(t, "dump_scaler")
    /\ disk' = Put(disk, ScalerPath(threads[t].name), threads[t].scaler)
    /\ Goto(t, "dump_metadata")
    /\ UNCHANGED <<loaded_models, scalers, clock, last, written>>

\* json.dump(metadata, f)
save_dump_metadata(t) ==
    /\ At(t, "dump_metadata")
    /\ disk' = Put(disk, MetadataPath(threads[t].name), threads[t].metadata)
    /\ Goto(t, "register_model")
    /\ UNCHANGED <<loaded_models, scalers, clock, last, written>>

\* loaded_models[model_name] = model, in train_model
train_put_model(t) ==
    /\ At(t, "register_model")
    /\ loaded_models' = Put(loaded_models, threads[t].name, threads[t].model)
    /\ written' = written \cup {<<threads[t].model, threads[t].scaler>>}
    /\ Goto(t, "register_scaler")
    /\ UNCHANGED <<disk, scalers, clock, last>>

\* scalers[model_name] = scaler, in train_model, and the 200 answer
train_put_scaler(t) ==
    /\ At(t, "register_scaler")
    /\ scalers' = Put(scalers, threads[t].name, threads[t].scaler)
    /\ Finish(t, 200, "none")
    /\ UNCHANGED <<disk, loaded_models, clock, last, written>>

\* os.path.exists(model_path) and model = joblib.load(model_path)
load_read_model(t) ==
    /\ At(t, "read_model")
    /\ IF /\ ModelPath(threads[t].name) \in DOMAIN disk
          /\ ~ReadFails(disk, ModelPath(threads[t].name), FALSE)
       THEN threads' = [threads EXCEPT ![t].pc = "read_scaler",
                                       ![t].model = disk[ModelPath(threads[t].name)]]
       ELSE Finish(t, 404, "none")
    /\ UNCHANGED <<disk, loaded_models, scalers, clock, last, written>>

\* scaler = None, or joblib.load(scaler_path) when the file exists
load_read_scaler(t) ==
    /\ At(t, "read_scaler")
    /\ IF /\ ScalerPath(threads[t].name) \in DOMAIN disk
          /\ ReadFails(disk, ScalerPath(threads[t].name), FALSE)
       THEN Finish(t, 404, "none")
       ELSE threads' = [threads EXCEPT ![t].pc = "put_model",
                                       ![t].scaler = LoadedScaler(disk, threads[t].name)]
    /\ UNCHANGED <<disk, loaded_models, scalers, clock, last, written>>

\* loaded_models[model_name] = model, in load_model
load_put_model(t) ==
    /\ At(t, "put_model")
    /\ loaded_models' = Put(loaded_models, threads[t].name, threads[t].model)
    /\ written' = written \cup {<<threads[t].model, threads[t].scaler>>}
    /\ Goto(t, "put_scaler")
    /\ UNCHANGED <<disk, scalers, clock, last>>

\* scalers[model_name] = scaler, in load_model, and the return to the caller
load_put_scaler(t) ==
    /\ At(t, "put_scaler")
    /\ scalers' = Put(scalers, threads[t].name, threads[t].scaler)
    /\ IF threads[t].op = "predict" THEN Goto(t, "get_model")
       ELSE Finish(t, 200, "none")
    /\ UNCHANGED <<disk, loaded_models, clock, last, written>>

\* if model_name not in loaded_models, in predict
predict_check(t) ==
    /\ At(t, "check")
    /\ IF threads[t].name \notin DOMAIN loaded_models
       THEN Goto(t, "read_model")
       ELSE Goto(t, "get_model")
    /\ UNCHANGED <<disk, loaded_models, scalers, clock, last, written>>

\* model = loaded_models[model_name]: KeyError when the name is gone
predict_get_model(t) ==
    /\ At(t, "get_model")
    /\ IF threads[t].name \notin DOMAIN loaded_models
       THEN Finish(t, 500, "KeyError")
       ELSE threads' = [threads EXCEPT ![t].pc = "get_scaler",
                                       ![t].model = loaded_models[threads[t].name]]
    /\ UNCHANGED <<disk, loaded_models, scalers, clock, last, written>>

\* scaler = scalers.get(model_name), then the transform and the prediction
predict_get_scaler(t) ==
    /\ At(t, "get_scaler")
    /\ LET scaler == IF threads[t].name \in DOMAIN scalers
                     THEN scalers[threads[t].name] ELSE None
           raises == \/ ScalerRaises(scaler, ConcInput)
                     \/ ModelRaises(threads[t].model, scaler, ConcInput)
       IN  threads' = [threads EXCEPT ![t].pc = "done", ![t].scaler = scaler,
                                      ![t].status = IF raises THEN 500 ELSE 200,
                                      ![t].err = IF raises THEN "ValueError" ELSE "none"]
    /\ UNCHANGED <<disk, loaded_models, scalers, clock, last, written>>

\* if model_name in loaded_models, in unload_model
unload_check_model(t) ==
    /\ At(t, "check_model")
    /\ IF threads[t].name \in DOMAIN loaded_models
       THEN Goto(t, "del_model")
       ELSE Goto(t, "check_scaler")
    /\ UNCHANGED <<disk, loaded_models, scalers, clock, last, written>>

\* del loaded_models[model_name]: KeyError when the name is gone
unload_del_model(t) ==
    /\ At(t, "del_model")
    /\ IF threads[t].name \in DOMAIN loaded_models
       THEN /\ loaded_models' = Del(loaded_models, threads[t].name)
            /\ Goto(t, "check_scaler")
       ELSE /\ loaded_models' = loaded_models
            /\ Finish(t, 500, "KeyError")
    /\ UNCHANGED <<disk, scalers, clock, last, written>>

\* if model_name in scalers, in unload_model
unload_check_scaler(t) ==
    /\ At(t, "check_scaler")
    /\ IF threads[t].name \in DOMAIN scalers
       THEN Goto(t, "del_scaler")
       ELSE Finish(t, 200, "none")
    /\ UNCHANGED <<disk, loaded_models, scalers, clock, last, written>>

\* del scalers[model_name]: KeyError when the name is gone
unload_del_scaler(t) ==
    /\ At(t, "del_scaler")
    /\ IF threads[t].name \in DOMAIN scalers
       THEN /\ scalers' = Del(scalers, threads[t].name)
            /\ Finish(t, 200, "none")
       ELSE /\ scalers' = scalers
            /\ Finish(t, 500, "KeyError")
    /\ UNCHANGED <<disk, loaded_models, clock, last, written>>

NextConc ==
    \/ \E t \in Threads, op \in {"predict", "load", "unload"}, model_name \in ConcNames :
           begin(t, op, model_name)
    \/ \E t \in Threads, model_name \in ConcNames : train_fit(t, model_name)
    \/ \E t \in Threads : save_dump_model(t)
    \/ \E t \in Threads : save_dump_scaler(t)
    \/ \E t \in Threads : save_dump_metadata(t)
    \/ \E t \in Threads : train_put_model(t)
    \/ \E t \in Threads : train_put_scaler(t)
    \/ \E t \in Threads : load_read_model(t)
    \/ \E t \in Threads : load_read_scaler(t)
    \/ \E t \in Threads : load_put_model(t)
    \/ \E t \in Threads : load_put_scaler(t)
    \/ \E t \in Threads : predict_check(t)
    \/ \E t \in Threads : predict_get_model(t)
    \/ \E t \in Threads : predict_get_scaler(t)
    \/ \E t \in Threads : unload_check_model(t)
    \/ \E t \in Threads : unload_del_model(t)
    \/ \E t \in Threads : unload_check_scaler(t)
    \/ \E t \in Threads : unload_del_scaler(t)

SpecConc == Init /\ [][NextConc]_vars

\* ================================================================== claims
\* joblib.load(path) of an existing file returns an object
Readable(dk, path) == path \in DOMAIN dk /\ dk[path].kind # "corrupt"

\* obj is a scaler that was fitted and saved for model_name
ScalerOf(obj, model_name) == obj.kind = "scaler" /\ obj.owner = model_name

\* C1: the scaler the registry holds for a name, and the scaler artifact a
\* load of that name reads from disk, is absent or a scaler saved for that
\* very name, never an artifact written for another model name.
ScalerPairedWithOwnName ==
    \A model_name \in Names :
        /\ model_name \in DOMAIN scalers =>
               \/ scalers[model_name] = None
               \/ ScalerOf(scalers[model_name], model_name)
        /\ (Readable(disk, ModelPath(model_name))
              /\ Readable(disk, ScalerPath(model_name))) =>
               ScalerOf(disk[ScalerPath(model_name)], model_name)

\* no file on disk is the remains of a failed write
Intact(dk) == \A f \in DOMAIN dk : dk[f].kind # "corrupt"

\* C2: when save_model(N, M, S) returned True, the load_model(N) that follows
\* (its reads meeting no fault, every file on disk intact) returns True and
\* leaves exactly (M, S) in the registry for N, with S = None when no scaler
\* was given to save_model.
SaveLoadRoundTrip ==
    [][(/\ last.op = "save_model" /\ last.ok
        /\ last'.op = "load_model" /\ last'.name = last.name
        /\ last'.fault = "none" /\ Intact(disk))
       => (/\ last'.ok
           /\ last.name \in DOMAIN loaded_models'
           /\ last.name \in DOMAIN scalers'
           /\ loaded_models'[last.name] = last.model
           /\ scalers'[last.name] = last.scaler)]_vars

\* C3: every resident name holds the model that is in its model file and the
\* scaler that is in its scaler file (None when there is no scaler file).
CacheMatchesDisk ==
    \A model_name \in DOMAIN loaded_models :
        /\ ModelPath(model_name) \in DOMAIN disk
        /\ loaded_models[model_name] = disk[ModelPath(model_name)]
        /\ model_name \in DOMAIN scalers
        /\ scalers[model_name] = LoadedScaler(disk, model_name)

\* the entry of model_name is the same in the registry before and after
EntryKept(model_name) ==
    /\ model_name \in DOMAIN loaded_models /\ model_name \in DOMAIN loaded_models'
    /\ loaded_models'[model_name] = loaded_models[model_name]
    /\ model_name \in DOMAIN scalers /\ model_name \in DOMAIN scalers'
    /\ scalers'[model_name] = scalers[model_name]

\* C4: between requests the model map and the scaler map have the same names,
\* and an entry that a request creates or replaces is the content of that
\* name's model file read by a load that succeeded (load, lazy load of
\* predict, startup sweep), or the model of a train of that name whose save
\* returned True.
RegistryNeverPartial ==
    /\ [](DOMAIN loaded_models = DOMAIN scalers)
    /\ [][\A model_name \in DOMAIN loaded_models' :
            \/ EntryKept(model_name)
            \/ /\ last'.op \in {"load", "predict"}
               /\ last'.name = model_name
               /\ last'.loads = 1
               /\ Readable(disk, ModelPath(model_name))
               /\ loaded_models'[model_name] = disk[ModelPath(model_name)]
            \/ /\ last'.op = "startup"
               /\ Readable(disk, ModelPath(model_name))
               /\ loaded_models'[model_name] = disk[ModelPath(model_name)]
            \/ /\ last'.op = "train"
               /\ last'.name = model_name
               /\ last'.status = 200
               /\ loaded_models'[model_name] = last'.model
               /\ disk'[ModelPath(model_name)] = last'.model]_vars

\* a train wrote the model file of a name and failed at a later write: the
\* name is not registered while another name is resident
RegistryNeverPartialWitness ==
    /\ last.op = "train" /\ last.status = 500 /\ last.fault \in {"scaler", "meta"}
    /\ last.name \notin DOMAIN loaded_models
    /\ disk[ModelPath(last.name)] = last.model
    /\ DOMAIN loaded_models # {}
    /\ DOMAIN loaded_models = DOMAIN scalers

\* the second of two equal predict requests in a row, the first of which
\* read an intact model file with no read fault
SecondPredict ==
    /\ last.op = "predict" /\ last.loads = 1 /\ last.fault = "none"
    /\ Readable(disk, ModelPath(last.name))
    /\ last'.op = "predict" /\ last'.name = last.name /\ last'.x = last.x
    /\ last'.fault = "none"

\* the two calls made one disk load together and answered the same
OneLoadSameAnswer ==
    /\ last.name \in DOMAIN loaded_models
    /\ last.loads + last'.loads = 1
    /\ last'.status = last.status
    /\ last'.predictions = last.predictions

\* C5 as stated: for a name that is not resident and whose model file is
\* readable, two predict calls in a row with the same input make exactly one
\* disk load together and return the same predictions.
LazyLoadOnceAsStated == [][SecondPredict => OneLoadSameAnswer]_vars

\* C5 amended: the same, for a name whose scaler file is absent or readable
\* as well.
LazyLoadOnce ==
    [][(SecondPredict /\ (ScalerPath(last.name) \in DOMAIN disk
                            => Readable(disk, ScalerPath(last.name))))
       => OneLoadSameAnswer]_vars

\* the second predict answered from the registry what the first one, which
\* loaded the model from disk, had answered
LazyLoadOnceWitness ==
    /\ last.op = "predict" /\ last.repeats /\ last.prior_loads = 1
    /\ last.loads = 0 /\ last.status = 200
    /\ Len(last.predictions) = last.x.rows
    /\ last.scaler.kind = "scaler"

\* C6: predict of a name that is not resident and has no model file answers
\* 404 without predictions and changes neither the registry nor the disk.
UnknownModelPredict ==
    [][(/\ last'.op = "predict" /\ last'.name \in Names
        /\ last'.name \notin DOMAIN loaded_models
        /\ ModelPath(last'.name) \notin DOMAIN disk)
       => (/\ last'.status = 404
           /\ last'.predictions = <<>>
           /\ loaded_models' = loaded_models
           /\ scalers' = scalers
           /\ disk' = disk)]_vars

\* predict of an unknown name was answered 404 while other names are on disk
\* and resident
UnknownModelPredictWitness ==
    /\ last.op = "predict" /\ last.status = 404 /\ last.loads = 0
    /\ last.name \in Names
    /\ last.name \notin DOMAIN loaded_models
    /\ ModelPath(last.name) \notin DOMAIN disk
    /\ DOMAIN loaded_models # {}

\* C7: the load endpoint of a name whose model file is missing, or whose
\* model or scaler file cannot be read, answers 404 and leaves the registry
\* as it was, an entry already resident for the name included.
FailedLoadKeepsRegistry ==
    [][(/\ last'.op = "load"
        /\ \/ ModelPath(last'.name) \notin DOMAIN disk
           \/ last'.fault = "model"
           \/ ~Readable(disk, ModelPath(last'.name))
           \/ /\ ScalerPath(last'.name) \in DOMAIN disk
              /\ \/ last'.fault = "scaler"
                 \/ ~Readable(disk, ScalerPath(last'.name)))
       => (/\ last'.status = 404
           /\ loaded_models' = loaded_models
           /\ scalers' = scalers)]_vars

\* a load that read the model and failed at the scaler: the resident entry
\* of the name, an older model than the one on disk, is still there
FailedLoadKeepsRegistryWitness ==
    /\ last.op = "load" /\ last.status = 404 /\ last.loads = 1
    /\ last.fault = "scaler"
    /\ last.name \in DOMAIN loaded_models
    /\ Readable(disk, ModelPath(last.name))
    /\ loaded_models[last.name] # disk[ModelPath(last.name)]

\* C8: unload always answers 200; it leaves the registry unchanged when the
\* name is not resident, removes exactly the entry of the name (model and
\* scaler) when it is, and a second unload of the name changes nothing.
UnloadIdempotent ==
    [][last'.op = "unload" =>
        /\ last'.status = 200
        /\ DOMAIN loaded_models' = DOMAIN loaded_models \ {last'.name}
        /\ DOMAIN scalers' = DOMAIN scalers \ {last'.name}
        /\ \A other \in DOMAIN loaded_models' : EntryKept(other)
        /\ last'.name \notin DOMAIN loaded_models =>
               loaded_models' = loaded_models /\ scalers' = scalers
        /\ (last.op = "unload" /\ last.name = last'.name) =>
               loaded_models' = loaded_models /\ scalers' = scalers]_vars

\* an unload removed a resident name and kept another one
UnloadIdempotentWitness ==
    /\ last.op = "unload" /\ last.resident /\ last.status = 200
    /\ last.name \notin DOMAIN loaded_models
    /\ last.name \notin DOMAIN scalers
    /\ DOMAIN loaded_models # {}

\* the names that have a model file
NamesOnDisk(dk) == {model_name \in Names : ModelPath(model_name) \in DOMAIN dk}

\* C9: no request removes a file; the names with a model file never get
\* fewer; unload, load, predict, list and health leave every file as it is.
DiskNeverShrinks ==
    [][/\ DOMAIN disk \subseteq DOMAIN disk'
       /\ NamesOnDisk(disk) \subseteq NamesOnDisk(disk')
       /\ last'.op \in {"unload", "load", "predict", "list", "health"} =>
              disk' = disk]_vars

\* a train of a name that already had its files failed at the model write:
\* the files are all still there
DiskNeverShrinksWitness ==
    /\ last.op = "train" /\ last.status = 500 /\ last.fault = "model"
    /\ last.resident
    /\ {ModelPath(last.name), ScalerPath(last.name), MetadataPath(last.name)}
           \subseteq DOMAIN disk

\* model_name has a model file that holds a model saved under that name
HasModelArtifact(dk, model_name) ==
    /\ ModelPath(model_name) \in DOMAIN dk
    /\ dk[ModelPath(model_name)].kind = "model"
    /\ dk[ModelPath(model_name)].owner = model_name

\* the number of entries of the listing that carry model_name
Entries(models, model_name) ==
    Cardinality({i \in 1..Len(models) : models[i].name = model_name})

\* C10: a list that answers 200 has exactly one entry for every name that has
\* a model artifact on disk and none for a name without a model file; loaded
\* is residency, metadata is the metadata file or empty, total is the number
\* of entries.
ListModelsExact ==
    (last.op = "list" /\ last.status = 200) =>
        /\ \A model_name \in Names :
               /\ HasModelArtifact(disk, model_name) =>
                      Entries(last.models, model_name) = 1
               /\ ModelPath(model_name) \notin DOMAIN disk =>
                      Entries(last.models, model_name) = 0
        /\ \A i \in 1..Len(last.models) :
               /\ last.models[i].loaded = (last.models[i].name \in DOMAIN loaded_models)
               /\ last.models[i].metadata = ListedMetadata(disk, last.models[i].name)
        /\ last.total = Len(last.models)

\* C11: after a start that met no read fault, every name that has a model
\* artifact on disk is resident with that model and with a scaler saved under
\* its own name (or None), and a name without a readable model file is not
\* resident.
StartupLoadsEveryReadableModel ==
    (last.op = "startup" /\ last.fault = "none") =>
        \A model_name \in Names :
            /\ HasModelArtifact(disk, model_name) =>
                   /\ model_name \in DOMAIN loaded_models
                   /\ loaded_models[model_name] = disk[ModelPath(model_name)]
                   /\ model_name \in DOMAIN scalers
                   /\ \/ scalers[model_name] = None
                      \/ ScalerOf(scalers[model_name], model_name)
            /\ ~Readable(disk, ModelPath(model_name)) =>
                   model_name \notin DOMAIN loaded_models

\* C12: after a train of n rows of width d that answered 200 the entry of the
\* name is the (model, scaler) pair fitted by that train, the model file, the
\* scaler file and the metadata file hold that pair and the metadata the
\* response returned, the metadata counts d features and n samples, and a
\* predict of the same name that follows with a matrix of k rows of width d
\* reads no file and answers k predictions of that pair, in row order.
TrainRegistersAndPersists ==
    /\ []((last.op = "train" /\ last.status = 200) =>
            /\ last.name \in DOMAIN loaded_models
            /\ last.name \in DOMAIN scalers
            /\ loaded_models[last.name] = last.model
            /\ scalers[last.name] = last.scaler
            /\ last.model = Model(last.name, clock, last.x.width)
            /\ last.scaler = Scaler(last.name, clock, last.x.width)
            /\ {ModelPath(last.name), ScalerPath(last.name), MetadataPath(last.name)}
                   \subseteq DOMAIN disk
            /\ disk[ModelPath(last.name)] = last.model
            /\ disk[ScalerPath(last.name)] = last.scaler
            /\ disk[MetadataPath(last.name)] = last.metadata
            /\ last.metadata.kind = "meta"
            /\ last.metadata.d = last.x.width
            /\ last.metadata.n = last.x.rows)
    /\ [][(/\ last.op = "train" /\ last.status = 200
           /\ last'.op = "predict" /\ last'.name = last.name
           /\ last'.x.ndim = 2 /\ last'.x.width = last.x.width)
          => (/\ last'.status = 200
              /\ last'.loads = 0
              /\ Len(last'.predictions) = last'.x.rows
              /\ \A i \in 1..Len(last'.predictions) :
                     last'.predictions[i] =
                         [model |-> last.model.ver, scaler |-> last.scaler.ver,
                          row |-> i])]_vars

\* a predict of two rows answered two predictions right after a train that
\* replaced a resident entry
TrainRegistersAndPersistsWitness ==
    /\ last.op = "predict" /\ last.follows_train /\ last.status = 200
    /\ last.x.ndim = 2 /\ last.x.rows = 2 /\ Len(last.predictions) = 2
    /\ last.loads = 0
    /\ last.model.ver = 2

\* C13: a train request without a body, without features or without target
\* answers 400, writes no file and leaves the registry as it was.
MissingFieldsRejected ==
    [][(last'.op = "train" /\ last'.missing # "none")
       => (/\ last'.status = 400
           /\ disk' = disk
           /\ loaded_models' = loaded_models
           /\ scalers' = scalers)]_vars

\* a train without target answered 400 while files and entries exist
MissingFieldsRejectedWitness ==
    /\ last.op = "train" /\ last.missing = "target" /\ last.status = 400
    /\ DOMAIN disk # {} /\ DOMAIN loaded_models # {}

\* C14: a train request that has its fields but fewer than 2 rows, or a target
\* whose length differs from the number of rows, answers 400, writes no file
\* and leaves the registry as it was.
ShortOrMismatchedTrainIs400 ==
    [][(/\ last'.op = "train" /\ last'.missing = "none"
        /\ (last'.x.rows < 2 \/ last'.tlen # last'.x.rows))
       => (/\ last'.status = 400
           /\ disk' = disk
           /\ loaded_models' = loaded_models
           /\ scalers' = scalers)]_vars

\* C15: a load, or a predict that has its fields, answers 404 exactly when the
\* name is neither resident nor has a model file, and answers 500 when it
\* reads the files of a name that has a model file and a read fails.
NotFoundOnlyWhenAbsent ==
    [][(last'.op \in {"load", "predict"} /\ last'.name \in Names)
       => (/\ last'.status = 404 <=>
                  /\ last'.name \notin DOMAIN loaded_models
                  /\ ModelPath(last'.name) \notin DOMAIN disk
           /\ (/\ last'.loads > 0
               /\ ModelPath(last'.name) \in DOMAIN disk
               /\ ~LoadSucceeds(disk, last'.name, last'.fault))
              => last'.status = 500)]_vars

\* C16: a predict of a resident model fitted on d features, with a vector of
\* length d, answers 200 with exactly one prediction, with a scaler of that
\* width and with no scaler alike.
VectorPromotedOnEveryPath ==
    [][(/\ last'.op = "predict" /\ last'.name \in DOMAIN loaded_models
        /\ last'.name \in DOMAIN scalers
        /\ loaded_models[last'.name].kind = "model"
        /\ last'.x.ndim = 1
        /\ last'.x.width = loaded_models[last'.name].d
        /\ \/ scalers[last'.name] = None
           \/ /\ scalers[last'.name].kind = "scaler"
              /\ scalers[last'.name].d = last'.x.width)
       => (/\ last'.status = 200
           /\ Len(last'.predictions) = 1)]_vars

\* C17: a train that fitted its pair and whose save_model failed answers 500
\* and leaves both dicts of the registry as they were.
FailedSaveDoesNotRegister ==
    [][(/\ last'.op = "train" /\ last'.model.kind = "model"
        /\ last'.fault # "none")
       => (/\ last'.status = 500
           /\ loaded_models' = loaded_models
           /\ scalers' = scalers)]_vars

\* a train of a resident name failed at the scaler write and the entry is
\* still the older pair
FailedSaveDoesNotRegisterWitness ==
    /\ last.op = "train" /\ last.status = 500 /\ last.fault = "scaler"
    /\ last.resident
    /\ last.name \in DOMAIN loaded_models
    /\ loaded_models[last.name].kind = "model"
    /\ loaded_models[last.name].ver < last.model.ver
    /\ scalers[last.name].ver < last.scaler.ver

\* C18: the (model, scaler) pair a predict has used, while loads and trains of
\* the name run beside it, is a pair that one of them set out to register as
\* a whole: the entry as it was before a write or as it is after it, never
\* the model of one write with the scaler of another or with no scaler.
PredictUsesWholePair ==
    \A t \in Threads :
        (/\ threads[t].op = "predict" /\ threads[t].pc = "done"
         /\ threads[t].status # 404 /\ threads[t].err # "KeyError")
        => <<threads[t].model, threads[t].scaler>> \in written

\* C19: when no request is in progress any more, the entry of a name is the
\* whole pair of one train or load, and the model file and the scaler file
\* of the name are from one and the same train.
LastWriterWinsWholePair ==
    (\A t \in Threads : threads[t].pc \in {"idle", "done"}) =>
        \A model_name \in ConcNames :
            /\ (model_name \in DOMAIN loaded_models /\ model_name \in DOMAIN scalers)
                   => <<loaded_models[model_name], scalers[model_name]>> \in written
            /\ ({ModelPath(model_name), ScalerPath(model_name)} \subseteq DOMAIN disk)
                   => disk[ScalerPath(model_name)].ver = disk[ModelPath(model_name)].ver

\* C20: a predict of a name that has a model artifact on disk, with unloads
\* of the name running beside it, does not end with the 500 of a KeyError
\* raised because the entry went away after the residency check.
PredictSurvivesUnload ==
    \A t \in Threads :
        (/\ threads[t].op = "predict" /\ threads[t].pc = "done"
         /\ HasModelArtifact(disk, threads[t].name))
        => ~(threads[t].status = 500 /\ threads[t].err = "KeyError")
====
